---- MODULE Spec2Model ----
(***************************************************************************)
(* The two echo services of containers/examples: flask-echo/app.py (the    *)
(* synchronous service) and fastapi-echo/app.py (the asynchronous one).    *)
(*                                                                         *)
(* Python strings that the code inspects (environment keys and values,     *)
(* JSON strings and object keys) are sequences of one-character strings,   *)
(* so that startswith, substring search and int() are computed.  A JSON    *)
(* value is a record [t |-> tag, v |-> value]; an object's v is a function *)
(* from keys to JSON values, an array's v a sequence of JSON values.       *)
(* Requests are sent with Content-Type: application/json.                  *)
(***************************************************************************)
EXTENDS Integers, Sequences, FiniteSets, TLC

VARIABLES service, environ, hostname, pc, PORT, APP_VERSION, clock, last, memo

vars == <<service, environ, hostname, pc, PORT, APP_VERSION, clock, last, memo>>

\* Largest value of the wall clock read by datetime.datetime.now().
MaxClock == 1

(***************************************************************************)
(* String literals of the source.                                          *)
(***************************************************************************)
K_message == <<"m", "e", "s", "s", "a", "g", "e">>
K_other == <<"o", "t", "h", "e", "r">>
K_PORT == <<"P", "O", "R", "T">>
K_HOSTNAME == <<"H", "O", "S", "T", "N", "A", "M", "E">>
K_APP_VERSION == <<"A", "P", "P", "_", "V", "E", "R", "S", "I", "O", "N">>
K_APP_ == <<"A", "P", "P", "_">>
K_APPS == <<"A", "P", "P", "S">>
K_PATH == <<"P", "A", "T", "H">>

\* os.getenv('PORT', 8080): the default when PORT is unset.
DefaultPort == 8080

\* os.getenv('APP_VERSION', '1.0.0'): the default when APP_VERSION is unset.
DefaultVersion == <<"1", ".", "0", ".", "0">>

\* os.sys.version.split()[0] of the interpreter running the process.
PythonVersion == <<"3", ".", "1", "1">>

(***************************************************************************)
(* Python string operations.                                               *)
(***************************************************************************)
\* str.startswith(prefix)
StartsWith(s, prefix) ==
    /\ Len(s) >= Len(prefix)
    /\ \A i \in 1..Len(prefix) : s[i] = prefix[i]

\* needle in haystack, both str
IsSubstring(needle, haystack) ==
    \E i \in 0..(Len(haystack) - Len(needle)) :
        \A j \in 1..Len(needle) : haystack[i + j] = needle[j]

DigitValue ==
    [c \in {"0", "1", "2", "3", "4", "5", "6", "7", "8", "9"} |->
        CASE c = "0" -> 0 [] c = "1" -> 1 [] c = "2" -> 2 [] c = "3" -> 3
          [] c = "4" -> 4 [] c = "5" -> 5 [] c = "6" -> 6 [] c = "7" -> 7
          [] c = "8" -> 8 [] c = "9" -> 9]

\* int(s) succeeds on a non-empty string of decimal digits.
IsDecimal(s) == Len(s) > 0 /\ \A i \in 1..Len(s) : s[i] \in DOMAIN DigitValue

RECURSIVE ParseInt(_)
ParseInt(s) ==
    IF Len(s) = 0 THEN 0
    ELSE 10 * ParseInt(SubSeq(s, 1, Len(s) - 1)) + DigitValue[s[Len(s)]]

(***************************************************************************)
(* JSON values, as json.loads decodes them.                                *)
(***************************************************************************)
JNull == [t |-> "null", v |-> 0]
JBool(b) == [t |-> "bool", v |-> b]
JNum(n) == [t |-> "num", v |-> n]
JStr(s) == [t |-> "str", v |-> s]
JArr(a) == [t |-> "arr", v |-> a]
JObj(f) == [t |-> "obj", v |-> f]

\* A request without a body.
Absent == [t |-> "absent", v |-> 0]

EmptyObject == [k \in {} |-> JNull]

\* Strings posted as messages: the empty string, a plain one, and two that
\* contain the key's name.
Messages ==
    { <<>>, <<"h", "i">>, K_message, <<"a">> \o K_message }

\* Values of the key message that are not strings.
NonStringValues ==
    { JNull, JNum(0), JNum(7), JBool(TRUE), JArr(<<>>), JObj(EmptyObject) }

Bodies ==
    {Absent, JNull, JBool(TRUE), JBool(FALSE), JNum(0), JNum(7)}
    \cup {JStr(m) : m \in Messages}
    \cup {JArr(<<>>), JArr(<<JStr(K_message)>>), JArr(<<JStr(<<"h", "i">>)>>)}
    \cup {JObj(EmptyObject), JObj(K_other :> JStr(<<"h", "i">>))}
    \cup {JObj(K_message :> JStr(m)) : m \in Messages \ {<<"a">> \o K_message}}
    \cup {JObj(K_message :> x) : x \in NonStringValues}
    \cup {JObj((K_message :> JStr(<<"h", "i">>)) @@ (K_other :> JNum(7)))}

\* Caller addresses (request.remote_addr).
Addrs == {"10.0.0.1", "10.0.0.2"}

Requests ==
    {[route |-> r, body |-> Absent, addr |-> a] :
        r \in {"home", "health", "info"}, a \in {"10.0.0.1"}}
    \cup {[route |-> "echo", body |-> b, addr |-> a] : b \in Bodies, a \in Addrs}

NoRequest == [route |-> "none", body |-> Absent, addr |-> "10.0.0.1"]

(***************************************************************************)
(* Python operations on the decoded body.                                  *)
(***************************************************************************)
\* bool(data): None, False, 0, "", [] and {} are false.
Truthy(data) ==
    CASE data.t = "null" -> FALSE
      [] data.t = "bool" -> data.v
      [] data.t = "num" -> data.v # 0
      [] data.t = "str" -> Len(data.v) > 0
      [] data.t = "arr" -> Len(data.v) > 0
      [] data.t = "obj" -> DOMAIN data.v # {}

\* key in data is defined for a dict (a key), a list (an element) and a str
\* (a substring); on a number, a boolean or None it raises TypeError.
SupportsIn(data) == data.t \in {"obj", "arr", "str"}

PyIn(key, data) ==
    CASE data.t = "obj" -> key \in DOMAIN data.v
      [] data.t = "arr" ->
            \E i \in 1..Len(data.v) : data.v[i].t = "str" /\ data.v[i].v = key
      [] data.t = "str" -> IsSubstring(key, data.v)

\* data[key] with a str key is defined for a dict only; on a list or a str
\* it raises TypeError.
SupportsStrIndex(data) == data.t = "obj"

(***************************************************************************)
(* Responses.  handler tells whether the route's function body ran.        *)
(***************************************************************************)
Response(status, kind, handler, body) ==
    [status |-> status, kind |-> kind, handler |-> handler, body |-> body]

\* werkzeug's BadRequest raised by request.get_json() on a body that is not
\* JSON: status 400 with the framework's own error page.
FrameworkBadRequest == Response(400, "FrameworkError", TRUE, [page |-> "Bad Request"])

\* An exception escaping the view function: Flask answers 500.
InternalServerError == Response(500, "ServerError", TRUE, [page |-> "Internal Server Error"])

\* FastAPI's RequestValidationError, raised while the body is bound to the
\* parameter of the route: status 422 with a JSON detail list.
ValidationError == Response(422, "ValidationError", FALSE, [detail |-> "validation error"])

(***************************************************************************)
(* flask-echo/app.py                                                       *)
(***************************************************************************)
\* home() answering with a literal version instead of APP_VERSION.
flask_home_literal_version(version) ==
    Response(200, "Home", TRUE,
        [service |-> "Flask Echo API",
         version |-> DefaultVersion,
         framework |-> "Flask",
         endpoints |-> {"/", "/echo", "/health", "/info"}])

flask_home(version) ==
    Response(200, "Home", TRUE,
        [service |-> "Flask Echo API",
         version |-> version,
         framework |-> "Flask",
         endpoints |-> {"/", "/echo", "/health", "/info"}])

\* The test written as: not data or not data.get('message').
flask_missing_falsy_message(data) ==
    \/ ~Truthy(data)
    \/ ~PyIn(K_message, data)
    \/ (data.t = "obj" /\ ~Truthy(data.v[K_message]))

\* The test of line 55: not data or 'message' not in data.  It is evaluated
\* only where both operands are defined.
flask_missing(data) == ~Truthy(data) \/ ~PyIn(K_message, data)

\* The placeholder of the other service in place of request.remote_addr.
flask_client_ip_placeholder(addr) == "container"

flask_client_ip(addr) == addr

flask_echo(body, addr, version, host, now) ==
    IF body = Absent THEN FrameworkBadRequest
    ELSE IF Truthy(body) /\ ~SupportsIn(body) THEN InternalServerError
    ELSE IF flask_missing(body) THEN
        Response(400, "ErrorMapping", TRUE,
            [error |-> "Missing \"message\" field in request body"])
    ELSE IF ~SupportsStrIndex(body) THEN InternalServerError
    ELSE
        Response(200, "EchoResponse", TRUE,
            [echo |-> body.v[K_message],
             timestamp |-> now,
             hostname |-> host,
             client_ip |-> flask_client_ip(addr),
             metadata |-> [framework |-> "Flask",
                           version |-> version,
                           python_version |-> PythonVersion]])

health_status_ok == "ok"

health_status == "healthy"

\* health() reporting a value that changes from call to call.
flask_health_with_uptime(host, now) ==
    Response(200, "HealthResponse", TRUE,
        [status |-> health_status, timestamp |-> now, hostname |-> host,
         uptime |-> now])

flask_health(host, now) ==
    Response(200, "HealthResponse", TRUE,
        [status |-> health_status, timestamp |-> now, hostname |-> host])

\* The prefix without its underscore.
env_key_shown_short_prefix(key) ==
    StartsWith(key, <<"A", "P", "P">>) \/ key \in {K_PORT, K_HOSTNAME}

\* key.startswith('APP_') or key in ['PORT', 'HOSTNAME']
env_key_shown(key) == StartsWith(key, K_APP_) \/ key \in {K_PORT, K_HOSTNAME}

info_environment(env) ==
    [key \in {k \in DOMAIN env : env_key_shown(k)} |-> env[key]]

flask_info(env, version, port, host) ==
    Response(200, "InfoResponse", TRUE,
        [container |-> [hostname |-> host, python_version |-> PythonVersion],
         application |-> [framework |-> "Flask", version |-> version, port |-> port],
         environment |-> info_environment(env)])

(***************************************************************************)
(* fastapi-echo/app.py                                                     *)
(***************************************************************************)
fastapi_home(version) ==
    Response(200, "Home", TRUE,
        [service |-> "FastAPI Echo API",
         version |-> version,
         framework |-> "FastAPI",
         docs |-> "/docs",
         openapi |-> "/openapi.json",
         endpoints |-> {"/", "/echo", "/health", "/info", "/docs", "/redoc"}])

\* message declared without a type (message: Any).
EchoRequest_valid_untyped(body) ==
    /\ body.t = "obj"
    /\ K_message \in DOMAIN body.v

\* class EchoRequest(BaseModel): message: str.  The body must be an object
\* whose key message holds a string; other keys are ignored.
EchoRequest_valid(body) ==
    /\ body.t = "obj"
    /\ K_message \in DOMAIN body.v
    /\ body.v[K_message].t = "str"

fastapi_client_ip(addr) == "container"

fastapi_echo(body, addr, version, host, now) ==
    IF ~EchoRequest_valid(body) THEN ValidationError
    ELSE
        Response(200, "EchoResponse", TRUE,
            [echo |-> body.v[K_message],
             timestamp |-> now,
             hostname |-> host,
             client_ip |-> fastapi_client_ip(addr),
             metadata |-> [framework |-> "FastAPI",
                           version |-> version,
                           python_version |-> PythonVersion,
                           async |-> TRUE]])

\* health() counting the calls it has answered.
fastapi_health_counting(host, now) ==
    Response(200, "HealthResponse", TRUE,
        [status |-> health_status, timestamp |-> now, hostname |-> host,
         checks |-> now + 1])

fastapi_health(host, now) ==
    Response(200, "HealthResponse", TRUE,
        [status |-> health_status, timestamp |-> now, hostname |-> host])

fastapi_info(env, version, port, host) ==
    Response(200, "InfoResponse", TRUE,
        [container |-> [hostname |-> host, python_version |-> PythonVersion],
         application |-> [framework |-> "FastAPI", version |-> version,
                          port |-> port, async |-> TRUE],
         environment |-> info_environment(env)])

(***************************************************************************)
(* The process.                                                            *)
(***************************************************************************)
\* os.getenv(key, default)
getenv(env, key, default) == IF key \in DOMAIN env THEN env[key] ELSE default

\* Values of the environment variable PORT: a port number and a string
\* int() rejects.
PortValues == { <<"8", "0">>, <<"8", "x">> }

VersionValues == { <<"2", ".", "1">> }

Hostnames == { "pod-a", "pod-b" }

\* PATH is always set; the other variables may or may not be.
Environments ==
    { base @@ port @@ ver :
        base \in { (K_PATH :> <<"/", "b">>) @@ [k \in ks |-> <<"v">>] :
                     ks \in SUBSET {K_HOSTNAME, K_APP_, K_APPS} },
        port \in { [k \in {} |-> <<>>] } \cup { K_PORT :> p : p \in PortValues },
        ver \in { [k \in {} |-> <<>>] } \cup { K_APP_VERSION :> v : v \in VersionValues } }

\* A response apart from its timestamp field.
WithoutTimestamp(resp) ==
    [status |-> resp.status, kind |-> resp.kind,
     body |-> [k \in DOMAIN resp.body \ {"timestamp"} |-> resp.body[k]]]

NoResponse == Response(0, "None", FALSE, [none |-> TRUE])

Init ==
    /\ service \in {"Flask", "FastAPI"}
    /\ environ \in Environments
    /\ hostname \in Hostnames
    /\ pc = "boot"
    /\ PORT = 0
    /\ APP_VERSION = <<>>
    /\ clock = 0
    /\ last = [req |-> NoRequest, resp |-> NoResponse]
    /\ memo = [req |-> NoRequest, resp |-> NoResponse]

\* Lines 14-16 of both files, run once when the module is loaded: int()
\* raises ValueError on a PORT that is no number and the process ends.
Boot ==
    /\ pc = "boot"
    /\ IF K_PORT \in DOMAIN environ /\ ~IsDecimal(environ[K_PORT])
       THEN /\ pc' = "crashed"
            /\ UNCHANGED <<PORT, APP_VERSION>>
       ELSE /\ pc' = "serving"
            /\ PORT' = IF K_PORT \in DOMAIN environ
                       THEN ParseInt(environ[K_PORT]) ELSE DefaultPort
            /\ APP_VERSION' = getenv(environ, K_APP_VERSION, DefaultVersion)
    /\ UNCHANGED <<service, environ, hostname, clock, last, memo>>

\* Time passes between requests.
Tick ==
    /\ clock < MaxClock
    /\ clock' = clock + 1
    /\ UNCHANGED <<service, environ, hostname, pc, PORT, APP_VERSION, last, memo>>

\* The response to req is sent.
Serve(svc, req, resp) ==
    /\ pc = "serving"
    /\ service = svc
    /\ last' = [req |-> req, resp |-> resp]
    /\ UNCHANGED <<service, environ, hostname, pc, PORT, APP_VERSION, clock, memo>>

FlaskHome ==
    \E req \in Requests :
        req.route = "home" /\ Serve("Flask", req, flask_home(APP_VERSION))

FlaskEcho ==
    \E req \in Requests :
        /\ req.route = "echo"
        /\ Serve("Flask", req,
                 flask_echo(req.body, req.addr, APP_VERSION, hostname, clock))

FlaskHealth ==
    \E req \in Requests :
        req.route = "health" /\ Serve("Flask", req, flask_health(hostname, clock))

FlaskInfo ==
    \E req \in Requests :
        /\ req.route = "info"
        /\ Serve("Flask", req, flask_info(environ, APP_VERSION, PORT, hostname))

FastAPIHome ==
    \E req \in Requests :
        req.route = "home" /\ Serve("FastAPI", req, fastapi_home(APP_VERSION))

FastAPIEcho ==
    \E req \in Requests :
        /\ req.route = "echo"
        /\ Serve("FastAPI", req,
                 fastapi_echo(req.body, req.addr, APP_VERSION, hostname, clock))

FastAPIHealth ==
    \E req \in Requests :
        req.route = "health" /\ Serve("FastAPI", req, fastapi_health(hostname, clock))

FastAPIInfo ==
    \E req \in Requests :
        /\ req.route = "info"
        /\ Serve("FastAPI", req, fastapi_info(environ, APP_VERSION, PORT, hostname))

Next ==
    \/ Boot
    \/ Tick
    \/ FlaskHome
    \/ FlaskEcho
    \/ FlaskHealth
    \/ FlaskInfo
    \/ FastAPIHome
    \/ FastAPIEcho
    \/ FastAPIHealth
    \/ FastAPIInfo

Spec == Init /\ [][Next]_vars

(***************************************************************************)
(* Histories: a client keeps one exchange of the run in memo, to compare   *)
(* it with the exchanges that follow.  One environment per setting of      *)
(* APP_VERSION is enough here.                                             *)
(***************************************************************************)
InitHistory ==
    /\ Init
    /\ DOMAIN environ \subseteq {K_PATH, K_HOSTNAME, K_APP_VERSION}
    /\ K_HOSTNAME \in DOMAIN environ
    /\ hostname = "pod-a"

Observe ==
    /\ last.req # NoRequest
    /\ memo' = last
    /\ UNCHANGED <<service, environ, hostname, pc, PORT, APP_VERSION, clock, last>>

NextHistory == Next \/ Observe

SpecHistory == InitHistory /\ [][NextHistory]_vars

(***************************************************************************)
(* Properties.  last is the latest exchange, so a state predicate on last  *)
(* that holds in every reachable state holds of every response, whatever   *)
(* was handled before it.                                                  *)
(***************************************************************************)
IsEcho == last.req.route = "echo"

\* The body is a JSON object that has the key message.
HasMessageKey(body) == body.t = "obj" /\ K_message \in DOMAIN body.v

Is4xx(status) == status >= 400 /\ status <= 499

\* C1: in both services POST /echo with the body {"message": m}, m a string
\* (the empty string included), returns status 200 and an EchoResponse whose
\* field echo is m.
EchoReturnsMessage ==
    \A m \in Messages :
        (IsEcho /\ last.req.body = JObj(K_message :> JStr(m))) =>
            /\ last.resp.status = 200
            /\ last.resp.kind = "EchoResponse"
            /\ last.resp.body.echo = JStr(m)

\* The Flask service echoed the empty message.
EchoedEmptyMessage ==
    /\ IsEcho
    /\ service = "Flask"
    /\ last.req.body = JObj(K_message :> JStr(<<>>))
    /\ last.resp.status = 200
    /\ last.resp.body.echo = JStr(<<>>)

\* C2: in both services POST /echo without a body, or with a JSON object
\* that has no key message, returns a 4xx status and an error payload, never
\* an EchoResponse; in the Flask service the status is 400 and the payload
\* is the error mapping.
MissingMessageRejected ==
    (IsEcho /\ (last.req.body = Absent
                \/ (last.req.body.t = "obj" /\ ~HasMessageKey(last.req.body)))) =>
        /\ Is4xx(last.resp.status)
        /\ last.resp.kind \in {"ErrorMapping", "FrameworkError", "ValidationError"}
        /\ service = "Flask" =>
              last.resp.status = 400 /\ last.resp.kind = "ErrorMapping"

\* C3: for every decoded JSON body POST /echo ends in a 200 EchoResponse or
\* in a 4xx response with a JSON error body, never in a 5xx.
EchoEndsIn200Or4xx ==
    (IsEcho /\ last.req.body # Absent) =>
        \/ last.resp.status = 200 /\ last.resp.kind = "EchoResponse"
        \/ /\ Is4xx(last.resp.status)
           /\ last.resp.kind \in {"ErrorMapping", "ValidationError"}

\* C4: while the process runs GET /health can be answered, and every answer
\* to it has status 200 and status "healthy".
HealthAlwaysHealthy ==
    /\ pc = "serving" => ENABLED (FlaskHealth \/ FastAPIHealth)
    /\ last.req.route = "health" =>
          last.resp.status = 200 /\ last.resp.body.status = "healthy"

\* GET /health was answered by a process started with PORT set.
HealthAnswered ==
    /\ last.req.route = "health"
    /\ last.resp.status = 200
    /\ K_PORT \in DOMAIN environ
    /\ clock > 0

\* The keys GET /info may show, stated on the characters of the key.
AllowedKey(k) ==
    \/ Len(k) >= 4 /\ k[1] = "A" /\ k[2] = "P" /\ k[3] = "P" /\ k[4] = "_"
    \/ k = K_PORT
    \/ k = K_HOSTNAME

\* C5: the environment mapping of GET /info is the process environment
\* restricted to the keys that start with APP_ or are PORT or HOSTNAME.
InfoEnvironmentFiltered ==
    last.req.route = "info" =>
        LET shown == last.resp.body.environment
        IN /\ DOMAIN shown = {k \in DOMAIN environ : AllowedKey(k)}
           /\ \A k \in DOMAIN shown : shown[k] = environ[k]

\* GET /info showed APP_ and APP_VERSION and hid APPS and PATH.
InfoShownAndHidden ==
    /\ last.req.route = "info"
    /\ {K_APP_, K_APPS, K_PATH, K_APP_VERSION, K_HOSTNAME, K_PORT} \subseteq DOMAIN environ
    /\ K_APP_ \in DOMAIN last.resp.body.environment
    /\ K_APP_VERSION \in DOMAIN last.resp.body.environment
    /\ K_APPS \notin DOMAIN last.resp.body.environment
    /\ K_PATH \notin DOMAIN last.resp.body.environment

\* C6: two GET / calls, and two GET /health calls, to the same process
\* return payloads that agree in every field other than timestamp,
\* whatever was handled between them.
RepeatedGetsAgree ==
    (last.req.route \in {"home", "health"} /\ memo.req.route = last.req.route) =>
        WithoutTimestamp(last.resp) = WithoutTimestamp(memo.resp)

\* GET /health was answered twice, at different times.
HealthAnsweredTwice ==
    /\ last.req.route = "health"
    /\ memo.req.route = "health"
    /\ last.resp.body.timestamp # memo.resp.body.timestamp

\* C7: PORT defaults to the integer 8080 and APP_VERSION to "1.0.0", both
\* are what the environment held when the process started, and every
\* version a response reports is APP_VERSION and the port of GET /info is
\* PORT.
ConfigurationReadAtStart ==
    pc = "serving" =>
        /\ PORT \in Nat
        /\ K_PORT \notin DOMAIN environ => PORT = 8080
        /\ (K_PORT \in DOMAIN environ /\ environ[K_PORT] = <<"8", "0">>) => PORT = 80
        /\ K_APP_VERSION \notin DOMAIN environ =>
              APP_VERSION = <<"1", ".", "0", ".", "0">>
        /\ K_APP_VERSION \in DOMAIN environ => APP_VERSION = environ[K_APP_VERSION]
        /\ last.req.route = "home" => last.resp.body.version = APP_VERSION
        /\ (IsEcho /\ last.resp.status = 200) =>
              last.resp.body.metadata.version = APP_VERSION
        /\ last.req.route = "info" =>
              /\ last.resp.body.application.version = APP_VERSION
              /\ last.resp.body.application.port = PORT

\* GET / reported a version taken from the environment.
HomeReportedSetVersion ==
    /\ last.req.route = "home"
    /\ K_APP_VERSION \in DOMAIN environ
    /\ last.resp.body.version = <<"2", ".", "1">>

\* C8: for a JSON object whose message is not a string, the FastAPI service
\* answers 422 before the handler body runs, and the Flask service answers
\* 200 with echo equal to that value.
NonStringMessageDiffers ==
    (IsEcho /\ HasMessageKey(last.req.body)
            /\ last.req.body.v[K_message].t # "str") =>
        IF service = "FastAPI"
        THEN last.resp.status = 422 /\ ~last.resp.handler
        ELSE /\ last.resp.status = 200
             /\ last.resp.body.echo = last.req.body.v[K_message]

\* The Flask service echoed null.
FlaskEchoedNull ==
    /\ IsEcho
    /\ service = "Flask"
    /\ last.req.body = JObj(K_message :> JNull)
    /\ last.resp.body.echo = JNull

ClientIpAndFramework ==
    (IsEcho /\ last.resp.status = 200) =>
        /\ last.resp.body.metadata.framework = service
        /\ last.resp.body.client_ip =
              IF service = "Flask" THEN last.req.addr ELSE "container"

\* The FastAPI service answered a caller with the placeholder.
FastAPIReportedPlaceholder ==
    /\ IsEcho
    /\ service = "FastAPI"
    /\ last.req.addr = "10.0.0.2"
    /\ last.resp.status = 200
    /\ last.resp.body.client_ip = "container"

====
